---------------------------- MODULE Spec2Model ----------------------------
(***************************************************************************)
(* A model of the natural-language command pipeline of RhinoAI:            *)
(*   EnhancedNLPProcessor            (src/Resources/script_1.py)           *)
(*   IntentClassifier, ContextManager, ParameterExtractor,                  *)
(*   SemanticValidator and the data classes (src/Resources/script_2.py)    *)
(*                                                                         *)
(* One request is one run of ProcessNaturalLanguageAsync; its awaits are   *)
(* the points where the model lets time pass and other steps interleave.   *)
(*                                                                         *)
(* Numbers.  All C# doubles the model needs are integral (radii 0, 1, 5,   *)
(* 10, 2000, -2) and are kept as integers.  A confidence is kept in units  *)
(* of 1/(10*ConfScale): with ConfScale = 350 = 7*5*10 every keyword score m/5, m/7  *)
(* and the context score 0.1 is a whole number of units.                   *)
(*                                                                         *)
(* Utterances are sequences of lower/upper-case tokens (the text split at  *)
(* white space).  string.Contains(k) is modelled as "some token equals k   *)
(* after lower-casing"; no token of the utterances below holds a keyword   *)
(* as a proper substring, so the two agree on them.                        *)
(***************************************************************************)
EXTENDS Integers, Sequences, FiniteSets, TLC

-----------------------------------------------------------------------------
(* Bounds of the model *)

\* Number of requests (turns) the processor is given in one behaviour.
MaxTurns == 2

\* The clock (DateTime.UtcNow, in minutes) runs from 0 to MaxClock.
MaxClock == 6

-----------------------------------------------------------------------------
(* Program constants *)

\* if (intentResult.Confidence < 0.7), in units of 1/(10*ConfScale)
ConfScale == 7 * 5 * 10
KeywordWeight == 7
ContextWeight == 3
ConfidenceThreshold == 7 * ConfScale

\* ConversationContext.GetRelevanceScore returns 0.1: ConfScale/10 units of 1/ConfScale
RelevanceScore == 35

\* int maxRetries = 3
maxRetries == 3

\* await Task.Delay(1000 * (attempt + 1)), in milliseconds
BaseDelay == 1000
Backoff(attempt) == BaseDelay * (attempt + 1)

\* DateTime.UtcNow.AddMinutes(5)
CacheMinutes == 5

\* private readonly int _maxHistorySize = 10;  _history.TakeLast(5)
_maxHistorySize == 10
RecentTake == 5

\* radius > 1000 ; adjusted["radius"] = 1.0 / 10.0 ; GetDouble(parameters, "radius", 1.0)
LargeRadius == 1000
AdjustedSmall == 1
AdjustedLarge == 10
DefaultRadius == 1

-----------------------------------------------------------------------------
(* Values *)

\* a null string
NULL == "null"

\* a null object reference
None == [t |-> "null"]

Origin == <<0, 0, 0>>

\* object values held in a Dictionary<string, object>, with their run-time type
Double(v) == [t |-> "double", v |-> v]
Point(p) == [t |-> "Point3d", v |-> p]
Str(s) == [t |-> "string", v |-> s]
\* a double[] holding coordinates
Coords(p) == [t |-> "double[]", v |-> p]
\* a number of a provider's JSON reply that was not deserialised to a double
Json(v) == [t |-> "json", v |-> v]

EmptyMap == [k \in {} |-> None]

\* A text (a message) is the sequence of its lines; a null text has none.
NoText == << >>
Line(s) == <<s>>

\* ProcessingResult and its four factories
Success(m) == [IsSuccess |-> TRUE, Message |-> m, ErrorMessage |-> NoText, Type |-> "Success"]
Error(e) == [IsSuccess |-> FALSE, Message |-> NoText, ErrorMessage |-> e, Type |-> "Error"]
Warning(m) == [IsSuccess |-> TRUE, Message |-> m, ErrorMessage |-> NoText, Type |-> "Warning"]
Partial(m) == [IsSuccess |-> TRUE, Message |-> m, ErrorMessage |-> NoText, Type |-> "Partial"]

NoResult == [IsSuccess |-> FALSE, Message |-> NoText, ErrorMessage |-> NoText, Type |-> "none"]

Valid == [IsValid |-> TRUE, ErrorMessage |-> NoText]
Invalid(m) == [IsValid |-> FALSE, ErrorMessage |-> m]

-----------------------------------------------------------------------------
(* The catalog: IntentClassifier._patterns, in declaration order *)

\* a null CommandTemplate reference
NoTemplate == [CommandName |-> NULL, Parameters |-> << >>]

CreateSphereTemplate ==
  [CommandName |-> "CreateSphere", Parameters |-> <<"center", "radius", "material", "layer">>]
CreateBoxTemplate ==
  [CommandName |-> "CreateBox", Parameters |-> <<"center", "dimensions", "material", "layer">>]
ModifyObjectTemplate ==
  [CommandName |-> "ModifyObject", Parameters |-> <<"objectId", "operation", "parameters">>]

InitializeIntentPatterns ==
  << [Category |-> "DirectCommand",
      Keywords |-> <<"sphere", "ball", "round", "create", "make">>,
      Template |-> CreateSphereTemplate],
     [Category |-> "DirectCommand",
      Keywords |-> <<"box", "cube", "rectangular", "create", "make">>,
      Template |-> CreateBoxTemplate],
     [Category |-> "Modification",
      Keywords |-> <<"modify", "change", "edit", "update", "move", "scale", "rotate">>,
      Template |-> ModifyObjectTemplate] >>

\* the templates the processor can look a command name up in
TemplateOf(name) ==
  CASE name = "CreateSphere" -> CreateSphereTemplate
    [] name = "CreateBox" -> CreateBoxTemplate
    [] name = "ModifyObject" -> ModifyObjectTemplate
    [] OTHER -> [CommandName |-> name, Parameters |-> << >>]

-----------------------------------------------------------------------------
(* Text *)

\* ToLowerInvariant / RegexOptions.IgnoreCase on one token
Lower(tok) ==
  CASE tok = "Create" -> "create"
    [] tok = "Radius" -> "radius"
    [] OTHER -> tok

ToLowerInvariant(input) == [i \in 1..Len(input) |-> Lower(input[i])]

\* string.Contains(k)
Contains(input, k) == \E i \in 1..Len(input) : input[i] = k

\* string.IsNullOrWhiteSpace: no token at all
IsNullOrWhiteSpace(input) == Len(input) = 0

\* the tokens matched by \d+(?:\.\d+)? and their values
IsNumber(tok) == tok \in {"0", "5", "2000"}
NumberOf(tok) ==
  CASE tok = "0" -> 0
    [] tok = "5" -> 5
    [] tok = "2000" -> 2000

\* the utterances a behaviour draws its inputs from
UBlank == << >>
USphere5 == <<"Create", "make", "round", "ball", "sphere", "radius", "5", "at", "origin">>
USphere0 == <<"create", "make", "round", "ball", "sphere", "radius", "0">>
USpecSphere == <<"Create", "a", "sphere", "with", "radius", "5", "at", "the", "origin">>
UModify == <<"modify", "change", "edit", "update", "move", "scale", "rotate">>
UChat == <<"hello">>

\* "create a sphere with radius -2", and the same request in words the
\* classifier is confident about
USpecNeg == <<"create", "a", "sphere", "with", "radius", "-2">>
USphereNeg == <<"create", "make", "round", "ball", "sphere", "radius", "-2">>
\* a sphere of a radius above 1000
USphereLarge == <<"create", "make", "round", "ball", "sphere", "radius", "2000">>

Utterances == {UBlank, USphere5, USphere0, USpecSphere, UModify}

\* utterances on which the patterns of the catalog tie: "create" scores 1/5 for
\* the sphere and for the box; UEverything holds every keyword of the box and
\* of the modification (and two of the sphere's); UCube is a box by 2/5 to 1/5
UCreate == <<"create">>
UCube == <<"make", "cube">>
UEverything ==
  <<"box", "cube", "rectangular", "create", "make",
    "modify", "change", "edit", "update", "move", "scale", "rotate">>


-----------------------------------------------------------------------------
(* IntentClassifier *)

\* pattern.Keywords.Count(k => input.Contains(k))
KeywordMatches(input, pattern) ==
  Cardinality({i \in 1..Len(pattern.Keywords) : Contains(input, pattern.Keywords[i])})

\* context?.GetRelevanceScore(pattern.Category) ?? 0.0
GetRelevanceScore(context, category) ==
  IF context = None THEN 0 ELSE RelevanceScore

\* (keywordScore * 0.7) + (contextScore * 0.3)
CalculateConfidence(input, pattern, context) ==
  (KeywordWeight * KeywordMatches(input, pattern) * ConfScale) \div Len(pattern.Keywords)
    + ContextWeight * GetRelevanceScore(context, pattern.Category)

\* new IntentResult { Confidence = 0.0 }: Category is the enum's first member
DefaultIntent ==
  [Category |-> "DirectCommand", CommandTemplate |-> NoTemplate,
   Confidence |-> 0, Keywords |-> << >>]

MatchedKeywords(input, pattern) ==
  SelectSeq(pattern.Keywords, LAMBDA k : Contains(input, k))

\* ClassifyFrom with >= for >: the last of the best patterns wins
RECURSIVE ClassifyFrom_LastWins(_, _, _, _)
ClassifyFrom_LastWins(i, input, context, bestMatch) ==
  IF i > Len(InitializeIntentPatterns) THEN bestMatch
  ELSE LET pattern == InitializeIntentPatterns[i]
           confidence == CalculateConfidence(input, pattern, context)
       IN  IF confidence >= bestMatch.Confidence
           THEN ClassifyFrom_LastWins(i + 1, input, context,
                  [Category |-> pattern.Category,
                   CommandTemplate |-> pattern.Template,
                   Confidence |-> confidence,
                   Keywords |-> MatchedKeywords(input, pattern)])
           ELSE ClassifyFrom_LastWins(i + 1, input, context, bestMatch)

\* the foreach over _patterns.Values, from pattern i on, with the best match so far
RECURSIVE ClassifyFrom(_, _, _, _)
ClassifyFrom(i, input, context, bestMatch) ==
  IF i > Len(InitializeIntentPatterns) THEN bestMatch
  ELSE LET pattern == InitializeIntentPatterns[i]
           confidence == CalculateConfidence(input, pattern, context)
       IN  IF confidence > bestMatch.Confidence
           THEN ClassifyFrom(i + 1, input, context,
                  [Category |-> pattern.Category,
                   CommandTemplate |-> pattern.Template,
                   Confidence |-> confidence,
                   Keywords |-> MatchedKeywords(input, pattern)])
           ELSE ClassifyFrom(i + 1, input, context, bestMatch)

ClassifyIntentAsync(input, context) ==
  ClassifyFrom(1, ToLowerInvariant(input), context, DefaultIntent)

-----------------------------------------------------------------------------
(* ParameterExtractor *)

\* Regex radius\s+(\d+(?:\.\d+)?), IgnoreCase; then
\* (\d+(?:\.\d+)?)\s*(?:units?|mm|cm|m)?\s+radius, IgnoreCase
ExtractRadius(input) ==
  LET low == ToLowerInvariant(input)
      first == {i \in 1..(Len(low) - 1) : low[i] = "radius" /\ IsNumber(low[i + 1])}
      plain == {i \in 1..(Len(low) - 1) : IsNumber(low[i]) /\ low[i + 1] = "radius"}
      unit == {i \in 1..(Len(low) - 2) :
                 /\ IsNumber(low[i])
                 /\ low[i + 1] \in {"unit", "units", "mm", "cm", "m"}
                 /\ low[i + 2] = "radius"}
      Min(S) == CHOOSE x \in S : \A y \in S : x <= y
  IN  IF first # {} THEN Double(NumberOf(low[Min(first) + 1]))
      ELSE IF plain \cup unit # {} THEN Double(NumberOf(low[Min(plain \cup unit)]))
      ELSE None

\* "next to" / "above" / "below", OrdinalIgnoreCase
ExtractRelativePosition(input) ==
  LET low == ToLowerInvariant(input)
  IN  IF \E i \in 1..(Len(low) - 1) : low[i] = "next" /\ low[i + 1] = "to" THEN <<5, 0, 0>>
      ELSE IF Contains(low, "above") THEN <<0, 0, 5>>
      ELSE IF Contains(low, "below") THEN <<0, 0, -5>>
      ELSE None

\* the tokens matched by the coordinate triple of at\s+x\s*,\s*y\s*,\s*z
IsCoordinates(tok) == tok \in {"5,10,0"}
CoordinatesOf(tok) == CASE tok = "5,10,0" -> <<5, 10, 0>>

\* context is the ConversationContext object (a record) or None
ExtractPoint3d(input, context) ==
  LET coord == {i \in 1..(Len(input) - 1) : input[i] = "at" /\ IsCoordinates(input[i + 1])}
      Min(S) == CHOOSE x \in S : \A y \in S : x <= y
      relative == ExtractRelativePosition(input)
  IN  IF coord # {} THEN Point(CoordinatesOf(input[Min(coord) + 1]))
      ELSE IF Contains(ToLowerInvariant(input), "origin") THEN Point(Origin)
      ELSE IF context # None /\ context.LastCreatedObject # None /\ relative # None
           THEN Point([i \in 1..3 |-> context.LastCreatedObject.Position[i] + relative[i]])
      ELSE None

\* (?:made\s+of|material|color)\s+(\w+), IgnoreCase
ExtractMaterial(input) ==
  LET low == ToLowerInvariant(input)
      hit == {i \in 1..(Len(low) - 1) : low[i] \in {"material", "color"}}
      Min(S) == CHOOSE x \in S : \A y \in S : x <= y
  IN  IF hit # {} THEN Str(input[Min(hit) + 1]) ELSE None

\* (?:on\s+layer|layer)\s+['"]?(\w+)['"]?, IgnoreCase
ExtractLayer(input) ==
  LET low == ToLowerInvariant(input)
      hit == {i \in 1..(Len(low) - 1) : low[i] = "layer"}
      Min(S) == CHOOSE x \in S : \A y \in S : x <= y
  IN  IF hit # {} THEN Str(input[Min(hit) + 1]) ELSE None

\* the switch on parameterName.ToLower(); _extractors is empty; no utterance of
\* the model holds a w x l x h triple, so ExtractDimensions finds none
ExtractParameterAsync(input, parameterName, context) ==
  CASE parameterName \in {"center", "position"} -> ExtractPoint3d(input, context)
    [] parameterName = "radius" -> ExtractRadius(input)
    [] parameterName \in {"dimensions", "size"} -> None
    [] parameterName = "material" -> ExtractMaterial(input)
    [] parameterName = "layer" -> ExtractLayer(input)
    [] OTHER -> None

\* the Dictionary built by the foreach over template.Parameters
ExtractParametersAsync(input, template, context) ==
  LET names == {template.Parameters[i] : i \in 1..Len(template.Parameters)}
      found == {n \in names : ExtractParameterAsync(input, n, context) # None}
  IN  [n \in found |-> ExtractParameterAsync(input, n, context)]

\* GetDouble(parameters, key, defaultValue); a json number parses from its text
GetDouble(parameters, key, defaultValue) ==
  IF key \in DOMAIN parameters /\ parameters[key].t \in {"double", "json"}
  THEN parameters[key].v
  ELSE defaultValue

\* GetPoint3d(parameters, key, defaultValue): a Point3d, or a double[] of at
\* least three coordinates
GetPoint3d(parameters, key, defaultValue) ==
  IF key \in DOMAIN parameters /\ parameters[key].t = "Point3d"
  THEN parameters[key].v
  ELSE IF key \in DOMAIN parameters /\ parameters[key].t = "double[]"
          /\ Len(parameters[key].v) >= 3
  THEN SubSeq(parameters[key].v, 1, 3)
  ELSE defaultValue

\* errorMessage.Contains("radius", OrdinalIgnoreCase) for the messages of the model
MentionsRadius(errorMessage) ==
  \E i \in 1..Len(errorMessage) :
    errorMessage[i] \in {"Sphere radius must be positive", "Sphere radius must be positive.",
                         "Cylinder radius must be positive"}

\* AdjustParametersAsync setting the radius whether or not the dictionary holds one
AdjustParametersAsync_SetsRadius(parameters, errorMessage) ==
  [k \in DOMAIN parameters \cup {"radius"} |->
     IF k = "radius" THEN Double(AdjustedSmall) ELSE parameters[k]]

\* a copy of the dictionary with the two radius rules applied in turn
AdjustParametersAsync(parameters, errorMessage) ==
  IF /\ MentionsRadius(errorMessage)
     /\ "radius" \in DOMAIN parameters
     /\ parameters["radius"].t = "double"
  THEN LET radius == parameters["radius"].v
           a1 == IF radius <= 0
                 THEN [parameters EXCEPT !["radius"] = Double(AdjustedSmall)]
                 ELSE parameters
       IN  IF radius > LargeRadius
           THEN [a1 EXCEPT !["radius"] = Double(AdjustedLarge)]
           ELSE a1
  ELSE parameters

-----------------------------------------------------------------------------
(* SemanticValidator *)

ValidateSphereParameters(parameters) ==
  IF /\ "radius" \in DOMAIN parameters
     /\ parameters["radius"].t = "double"
     /\ parameters["radius"].v <= 0
  THEN Invalid(Line("Sphere radius must be positive"))
  ELSE Valid

\* no parameter map of the model holds a Vector3d "dimensions" or a "height"
ValidateBoxParameters(parameters) == Valid

ValidateCylinderParameters(parameters) ==
  IF /\ "radius" \in DOMAIN parameters
     /\ parameters["radius"].t = "double"
     /\ parameters["radius"].v <= 0
  THEN Invalid(Line("Cylinder radius must be positive"))
  ELSE Valid

ValidateParametersAsync(parameters, template) ==
  CASE template.CommandName = "CreateSphere" -> ValidateSphereParameters(parameters)
    [] template.CommandName = "CreateBox" -> ValidateBoxParameters(parameters)
    [] template.CommandName = "CreateCylinder" -> ValidateCylinderParameters(parameters)
    [] OTHER -> Valid

ValidateContextConstraints(parameters, context) == Valid

PreExecuteValidationAsync(template, parameters, context) ==
  LET result == ValidateParametersAsync(parameters, template)
  IN  IF result.IsValid THEN ValidateContextConstraints(parameters, context) ELSE result

-----------------------------------------------------------------------------
(* ConversationContext and ContextManager *)

\* new ConversationContext()
NewContext ==
  [RecentOperations |-> << >>, ActiveLayer |-> NULL, SceneDescription |-> NULL,
   LastCreatedObject |-> None]

\* An operation tag is kept as its parts: "create_x" is <<"create", "x">>, a verb
\* is <<verb>>, and a null tag is the empty sequence.
ExtractOperation(input) ==
  LET low == ToLowerInvariant(input)
      create == {i \in 1..(Len(low) - 1) : low[i] = "create"}
      verb == {i \in 1..Len(low) : low[i] \in {"move", "scale", "rotate", "modify"}}
      Min(S) == CHOOSE x \in S : \A y \in S : x <= y
  IN  IF create # {} THEN <<"create", input[Min(create) + 1]>>
      ELSE IF verb # {} THEN <<low[Min(verb)]>>
      ELSE << >>

\* _history.TakeLast(5)
TakeLast(history, n) ==
  IF Len(history) <= n THEN history ELSE SubSeq(history, Len(history) - n + 1, Len(history))

ExtractRecentOperations(history) ==
  LET ops == [i \in 1..Len(TakeLast(history, RecentTake)) |->
                ExtractOperation(TakeLast(history, RecentTake)[i])]
  IN  SelectSeq(ops, LAMBDA op : op # << >>)

\* _history.Enqueue(turn); while (_history.Count > _maxHistorySize) _history.Dequeue();
\* a turn's Timestamp is written and never read, and is left out
RECURSIVE Trim(_)
Trim(history) ==
  IF Len(history) > _maxHistorySize THEN Trim(Tail(history)) ELSE history

\* Enqueue refusing the new turn when the history is full
Enqueue_DropsNewest(history, input) ==
  IF Len(history) >= _maxHistorySize THEN history ELSE Append(history, input)

Enqueue(history, input) == Trim(Append(history, input))

\* the fields EnhanceContextAsync sets on the context it returns
Enhanced(context, history) ==
  [context EXCEPT !.RecentOperations = ExtractRecentOperations(history),
                  !.ActiveLayer = "Default",
                  !.SceneDescription = "Empty scene"]

\* ConversationContext.AddCreatedObject(id, type, parameters)
AddCreatedObject(context, id, type, parameters) ==
  [context EXCEPT !.LastCreatedObject =
     [Id |-> id, Type |-> type, Parameters |-> parameters,
      Position |-> IF "center" \in DOMAIN parameters /\ parameters["center"].t = "Point3d"
                   THEN parameters["center"].v
                   ELSE Origin]]

-----------------------------------------------------------------------------
(* Collaborators *)

\* what the host does with one AddBrep: the object is added, the geometry is
\* invalid (or the id is Guid.Empty), or the call raises
HostOutcomes == {"created", "invalid", "throws"}

\* the callers' ConversationContext objects; a request may also pass null
Sessions == {"A"}

\* the pipeline runs that may be in flight at once
Requests == {1}

\* OpenAI first, Claude second: the list of TryMultipleProvidersAsync
Providers == <<"OpenAI", "Claude">>

\* the actions a provider's reply may hold
ASphere5 == [CommandName |-> "CreateSphere", Parameters |-> ("radius" :> Double(5))]
ASphereNeg == [CommandName |-> "CreateSphere", Parameters |-> ("radius" :> Double(-2))]
ASphereJson == [CommandName |-> "CreateSphere", Parameters |-> ("radius" :> Json(-2))]
AModify == [CommandName |-> "ModifyObject", Parameters |-> EmptyMap]
\* a sphere whose center the reply gives as an array of coordinates
ASphereAt ==
  [CommandName |-> "CreateSphere",
   Parameters |-> ("center" :> Coords(<<5, 10, 0>>)) @@ ("radius" :> Double(5))]

\* A provider's non-empty reply, as the text and what a parse of it can give:
\* wellFormed: it parses directly; repairable: the repair pass recovers it.
ReplyActions(acts) ==
  [wellFormed |-> TRUE, repairable |-> TRUE, Actions |-> acts, ResponseText |-> NoText]
ReplyText ==
  [wellFormed |-> TRUE, repairable |-> TRUE, Actions |-> << >>, ResponseText |-> Line("text")]
ReplyMalformed ==
  [wellFormed |-> FALSE, repairable |-> FALSE, Actions |-> << >>, ResponseText |-> NoText]
NoReply ==
  [wellFormed |-> FALSE, repairable |-> FALSE, Actions |-> << >>, ResponseText |-> Line("none")]

Replies ==
  {ReplyActions(<<ASphere5>>), ReplyActions(<<ASphereNeg, AModify>>),
   ReplyActions(<<ASphereJson>>), ReplyText, ReplyMalformed}

ProviderOutcomes ==
  {[kind |-> "throws", reply |-> NoReply], [kind |-> "empty", reply |-> NoReply]}
    \cup {[kind |-> "reply", reply |-> x] : x \in Replies}

-----------------------------------------------------------------------------
(* Command execution: EnhancedNLPProcessor.ExecuteRhinoCommand *)

\* an exception on its way up the stack
Raised(what) ==
  [IsSuccess |-> FALSE, Message |-> NoText, ErrorMessage |-> what, Type |-> "exception"]

\* what a call gave: its result, and whether it called the host (AddBrep)
Outcome(result, host) == [result |-> result, host |-> host]

\* the host's part of a creation: sphere.ToBrep(), Objects.AddBrep(brep, attributes)
AddBrep(host, what) ==
  IF host = "created" THEN Success(<<"Created", what>>)
  ELSE IF host = "invalid" THEN Error(<<"Failed to create - invalid geometry", what>>)
  ELSE Raised(Line("host"))

CreateEnhancedSphere(parameters, host) ==
  LET radius == GetDouble(parameters, "radius", DefaultRadius)
  IN  IF radius <= 0 THEN Outcome(Error(Line("Sphere radius must be positive.")), FALSE)
      ELSE IF radius > LargeRadius
      THEN Outcome(Warning(Line("Large sphere. Continuing...")), FALSE)
      ELSE Outcome(AddBrep(host, "sphere"), TRUE)

\* CreateEnhancedBox and CreateEnhancedCylinder: DispatchCommand of the host
CreateEnhancedOther(parameters, host) == Outcome(AddBrep(host, "object"), TRUE)

\* Dispatch without the pre-execution validation
Dispatch_NoPreValidation(template, parameters, context, host) ==
  CASE template.CommandName = "CreateSphere" -> CreateEnhancedSphere(parameters, host)
    [] template.CommandName \in {"CreateBox", "CreateCylinder"} ->
         CreateEnhancedOther(parameters, host)
    [] OTHER ->
         Outcome(Error(<<"Command is not implemented.", template.CommandName>>), FALSE)

\* the try block of ExecuteRhinoCommand
Dispatch(template, parameters, context, host) ==
  LET preValidation == PreExecuteValidationAsync(template, parameters, context)
  IN  IF ~preValidation.IsValid THEN Outcome(Error(preValidation.ErrorMessage), FALSE)
      ELSE CASE template.CommandName = "CreateSphere" -> CreateEnhancedSphere(parameters, host)
             [] template.CommandName \in {"CreateBox", "CreateCylinder"} ->
                  CreateEnhancedOther(parameters, host)
             [] OTHER ->
                  Outcome(Error(<<"Command is not implemented.", template.CommandName>>), FALSE)

\* with its catch: an exception becomes Error("Execution failed: ...")
ExecuteRhinoCommand(template, parameters, context, host) ==
  LET done == Dispatch(template, parameters, context, host)
  IN  IF done.result.Type = "exception"
      THEN Outcome(Error(<<"Execution failed: ">> \o done.result.ErrorMessage), done.host)
      ELSE done

-----------------------------------------------------------------------------
(* FallbackHandler, RobustJsonParser, GenerateCacheKey, ProcessActionWithValidation *)

\* low-confidence classification -> Partial inviting clarification, with the category
HandleLowConfidenceAsync(input, intentResult) ==
  Partial(<<"Please clarify.", intentResult.Category>>)

\* provider exhaustion and internal faults -> Error with a fixed generic message
HandleExceptionAsync(ex, input) ==
  Error(Line("The request could not be processed."))

\* execution exhaustion -> Error summarising the last failure
HandleFailedExecutionAsync(template, parameters, lastException) ==
  Error(<<"The command could not be executed.", template.CommandName>>)

\* well-formed input parses directly, malformed input goes through a repair
\* pass, and an unparsable reply gives a null response
ParseWithRecoveryAsync(response) ==
  IF response.wellFormed \/ response.repairable
  THEN [Actions |-> response.Actions, ResponseText |-> response.ResponseText]
  ELSE None

\* the fingerprint: the normalised utterance and the context's layer and scene
GenerateCacheKey(input, context) ==
  [text |-> ToLowerInvariant(input), layer |-> context.ActiveLayer,
   scene |-> context.SceneDescription]

\* the text ProcessActionWithValidation returns for an executed action
ResultText(result) ==
  IF result.IsSuccess THEN result.Message ELSE result.ErrorMessage

\* string.Join(Environment.NewLine, results)
RECURSIVE Join(_)
Join(results) ==
  IF results = << >> THEN << >> ELSE Head(results) \o Join(Tail(results))

-----------------------------------------------------------------------------
(* State *)

VARIABLES
  clock,           \* DateTime.UtcNow, in minutes
  turns,           \* the number of requests given to the processor so far
  _responseCache,  \* Dictionary<string, CachedResponse>: key -> [Result, ExpiryTime]
  _history,        \* ContextManager._history, oldest first
  sessionContext,  \* the callers' ConversationContext objects
  doc,             \* the number of objects added to the document
  run              \* per request: the position and the locals of its pipeline run

vars == <<clock, turns, _responseCache, _history, sessionContext, doc, run>>

\* the cache check of a run: was it made, was there an entry under the key, the
\* entry's fields, the time, and whether the entry's result was returned
NoLookup ==
  [made |-> FALSE, present |-> FALSE, ExpiryTime |-> 0, Result |-> NoResult,
   at |-> 0, served |-> FALSE]

\* an entry of execLog: an attempt (was PreExecuteValidation valid, was the host
\* called, was the result a success) or an adjustment of the parameters
AttemptEvent(valid, dispatched, success) ==
  [kind |-> "attempt", valid |-> valid, dispatched |-> dispatched, success |-> success]
AdjustEvent ==
  [kind |-> "adjust", valid |-> FALSE, dispatched |-> FALSE, success |-> FALSE]
\* the Task.Delay of the catch of ExecuteWithRetry
DelayEvent(ms) ==
  [kind |-> "delay", valid |-> FALSE, dispatched |-> FALSE, success |-> FALSE, ms |-> ms]

\* a request that has not started
IdleRun ==
  [pc |-> "idle",
   entry |-> "none",            \* which classifier gave the intent
   input |-> UBlank,
   context |-> NULL,            \* the context argument: NULL or a session
   intentResult |-> DefaultIntent,
   enhanced |-> NULL,           \* enhancedContext: a session, or "new"
   fresh |-> NewContext,        \* the object EnhanceContextAsync creates for a null context
   cacheKey |-> None,
   cached |-> None,             \* the CachedResponse built and not yet put in the cache
   provider |-> 0,              \* index in Providers of the provider being tried
   inFlight |-> {},             \* the providers whose call has not returned
   response |-> NoReply,
   actions |-> << >>,           \* the actions of the reply still to process
   results |-> << >>,
   caller |-> "none",           \* who called ExecuteWithRetry
   template |-> NoTemplate,
   parameters |-> EmptyMap,
   attempt |-> 0,
   execResult |-> NoResult,     \* result of the last ExecuteRhinoCommand
   lastException |-> NULL,
   result |-> NoResult,         \* the ProcessingResult returned to the caller
   \* observations of the run
   lookup |-> NoLookup,         \* what the cache check saw and did
   calls |-> << >>,             \* provider calls: [provider, outcome]
   execLog |-> << >>,           \* attempts and adjustments of the current ExecuteWithRetry
   executions |-> 0,            \* calls of ExecuteWithRetry in this run
   fallbacks |-> << >>]         \* FallbackHandler methods called

Init ==
  /\ clock = 0
  /\ turns = 0
  /\ _responseCache = << >>
  /\ _history = << >>
  /\ sessionContext = [s \in Sessions |-> NewContext]
  /\ doc = 0
  /\ run = [r \in Requests |-> IdleRun]

\* the ConversationContext object a context reference of request r denotes
ContextObject(r, ref) ==
  IF ref = NULL THEN None
  ELSE IF ref = "new" THEN run[r].fresh
  ELSE sessionContext[ref]

-----------------------------------------------------------------------------
(* ProcessNaturalLanguageAsync: from the call to the confidence check *)

\* Started without the check of the input
Started_NoBlankCheck(r, input, context, intentResult, entry) ==
  LET base == [IdleRun EXCEPT !.input = input, !.context = context, !.entry = entry]
  IN  IF intentResult.Confidence < ConfidenceThreshold
      THEN [base EXCEPT !.pc = "done",
                        !.intentResult = intentResult,
                        !.fallbacks = <<"HandleLowConfidenceAsync">>,
                        !.result = HandleLowConfidenceAsync(input, intentResult)]
      ELSE [base EXCEPT !.pc = "enhance", !.intentResult = intentResult]

\* lines 74-86, given the IntentResult the classifier returned
Started(r, input, context, intentResult, entry) ==
  LET base == [IdleRun EXCEPT !.input = input, !.context = context, !.entry = entry]
  IN  IF IsNullOrWhiteSpace(input)
      THEN [base EXCEPT !.pc = "done",
                        !.result = Error(Line("Please provide a valid input."))]
      ELSE IF intentResult.Confidence < ConfidenceThreshold
      THEN [base EXCEPT !.pc = "done",
                        !.intentResult = intentResult,
                        !.fallbacks = <<"HandleLowConfidenceAsync">>,
                        !.result = HandleLowConfidenceAsync(input, intentResult)]
      ELSE [base EXCEPT !.pc = "enhance", !.intentResult = intentResult]

\* a request classified by the built-in IntentClassifier
ProcessNaturalLanguageAsync(r, input, context) ==
  /\ run[r].pc \in {"idle", "done"}
  /\ turns < MaxTurns
  /\ turns' = turns + 1
  /\ run' = [run EXCEPT ![r] =
       Started(r, input, context,
               ClassifyIntentAsync(input, ContextObject(r, context)), "builtin")]
  /\ UNCHANGED <<clock, _responseCache, _history, sessionContext, doc>>

\* An IntentResult of a category no pattern of the built-in catalog carries, at
\* the threshold: what a classifier handed to the constructor may return.  It is
\* the only way into the default branch of the switch.
UnroutedIntent ==
  [Category |-> "Unknown", CommandTemplate |-> NoTemplate,
   Confidence |-> ConfidenceThreshold, Keywords |-> << >>]

ProcessUnroutedIntent(r, input, context) ==
  /\ run[r].pc \in {"idle", "done"}
  /\ turns < MaxTurns
  /\ turns' = turns + 1
  /\ run' = [run EXCEPT ![r] = Started(r, input, context, UnroutedIntent, "injected")]
  /\ UNCHANGED <<clock, _responseCache, _history, sessionContext, doc>>

\* Handler with the DirectCommand case lost, so that it falls to the default
Handler_DirectFallsToDefault(category) ==
  CASE category = "ComplexOperation" -> "ProcessComplexOperation"
    [] category = "Query" -> "ProcessQuery"
    [] category = "Modification" -> "ProcessModification"
    [] OTHER -> "ProcessWithAI"

\* the switch on intentResult.Category: the handler that is called
Handler(category) ==
  CASE category = "DirectCommand" -> "ProcessDirectCommand"
    [] category = "ComplexOperation" -> "ProcessComplexOperation"
    [] category = "Query" -> "ProcessQuery"
    [] category = "Modification" -> "ProcessModification"
    [] OTHER -> "ProcessWithAI"

\* Step 2 and the switch: _contextManager.EnhanceContextAsync(input, context)
EnhanceContextAsync(r) ==
  LET me == run[r]
      history == Enqueue(_history, me.input)
      ref == IF me.context = NULL THEN "new" ELSE me.context
      object == Enhanced(IF me.context = NULL THEN NewContext
                         ELSE sessionContext[me.context], history)
  IN  /\ me.pc = "enhance"
      /\ _history' = history
      /\ sessionContext' = IF me.context = NULL THEN sessionContext
                           ELSE [sessionContext EXCEPT ![me.context] = object]
      /\ run' = [run EXCEPT ![r] =
           [me EXCEPT !.pc = Handler(me.intentResult.Category),
                      !.enhanced = ref,
                      !.fresh = IF me.context = NULL THEN object ELSE NewContext]]
      /\ UNCHANGED <<clock, turns, _responseCache, doc>>

-----------------------------------------------------------------------------
(* ProcessDirectCommand and ExecuteWithRetry *)

\* the return of ExecuteWithRetry to the method that called it
Returned(me, result) ==
  IF me.caller = "ai"
  THEN [me EXCEPT !.pc = "actions", !.results = Append(@, ResultText(result))]
  ELSE [me EXCEPT !.pc = "done", !.result = result]

\* the call ExecuteWithRetry(template, parameters, context): attempt = 0
Entered(me, caller, template, parameters) ==
  [me EXCEPT !.pc = "ExecuteWithRetry", !.caller = caller, !.template = template,
             !.parameters = parameters, !.attempt = 0, !.execResult = NoResult,
             !.execLog = << >>, !.executions = @ + 1]

\* extraction, semantic validation, and the call of ExecuteWithRetry
ExtractValidateExecute(r) ==
  LET me == run[r]
      template == me.intentResult.CommandTemplate
      parameters ==
        ExtractParametersAsync(me.input, template, ContextObject(r, me.enhanced))
      validationResult == ValidateParametersAsync(parameters, template)
  IN  /\ run' = [run EXCEPT ![r] =
           IF ~validationResult.IsValid
           THEN [me EXCEPT !.pc = "done", !.parameters = parameters,
                   !.result = Error(<<"Invalid parameters: ">> \o validationResult.ErrorMessage)]
           ELSE Entered(me, "direct", template, parameters)]
      /\ UNCHANGED <<clock, turns, _responseCache, _history, sessionContext, doc>>

ProcessDirectCommand(r) ==
  /\ run[r].pc = "ProcessDirectCommand"
  /\ ExtractValidateExecute(r)

\* Modification proceeds to extraction and execution like a direct command
ProcessModification(r) ==
  /\ run[r].pc = "ProcessModification"
  /\ ExtractValidateExecute(r)

\* AfterAttempt with no bound on the attempts
AfterAttempt_RetryForever(me, result) ==
  IF result.IsSuccess THEN Returned(me, result)
  ELSE [me EXCEPT !.pc = "AdjustParameters", !.execResult = result]

\* AfterAttempt going to the next attempt without the adjustment
AfterAttempt_NoAdjust(me, result) ==
  IF result.IsSuccess THEN Returned(me, result)
  ELSE IF me.attempt < maxRetries - 1
  THEN [me EXCEPT !.pc = "ExecuteWithRetry", !.execResult = result, !.attempt = @ + 1]
  ELSE [me EXCEPT !.pc = "exhausted", !.execResult = result, !.attempt = @ + 1]

\* AfterAttempt returning the last attempt's result when the attempts are used up
AfterAttempt_ReturnsLastResult(me, result) ==
  IF result.IsSuccess THEN Returned(me, result)
  ELSE IF me.attempt < maxRetries - 1
  THEN [me EXCEPT !.pc = "AdjustParameters", !.execResult = result]
  ELSE Returned([me EXCEPT !.execResult = result, !.attempt = @ + 1], result)

\* What ExecuteWithRetry does with the result of attempt number me.attempt:
\* return it, go on to adjust the parameters (attempt < maxRetries - 1), or
\* leave the loop, attempt + 1 having reached maxRetries.  An exception that
\* reached it would be caught (lines 229-238): lastException is set and, but
\* after the last attempt, the delay is awaited before the next attempt.
AfterAttempt(me, result) ==
  IF result.Type = "exception"
  THEN IF me.attempt < maxRetries - 1
       THEN [me EXCEPT !.pc = "ExecuteWithRetry", !.attempt = @ + 1,
                       !.lastException = "host",
                       !.execLog = Append(@, DelayEvent(Backoff(me.attempt)))]
       ELSE [me EXCEPT !.pc = "exhausted", !.attempt = @ + 1, !.lastException = "host"]
  ELSE IF result.IsSuccess THEN Returned(me, result)
  ELSE IF me.attempt < maxRetries - 1
  THEN [me EXCEPT !.pc = "AdjustParameters", !.execResult = result]
  ELSE [me EXCEPT !.pc = "exhausted", !.execResult = result, !.attempt = @ + 1]

\* One iteration of the for loop up to the result of ExecuteRhinoCommand.  The
\* catch of ExecuteWithRetry is never entered: ExecuteRhinoCommand turns every
\* exception into an Error result, and no result has a null ErrorMessage.
ExecuteWithRetry(r, host) ==
  LET me == run[r]
      context == ContextObject(r, me.enhanced)
      done == ExecuteRhinoCommand(me.template, me.parameters, context, host)
      added == done.host /\ host = "created"
      type == IF me.template.CommandName = "CreateSphere" THEN "sphere" ELSE "object"
      object == AddCreatedObject(context, doc + 1, type, me.parameters)
      step == AttemptEvent(
                PreExecuteValidationAsync(me.template, me.parameters, context).IsValid,
                done.host, done.result.IsSuccess)
      after == AfterAttempt([me EXCEPT !.execLog = Append(@, step)], done.result)
  IN  /\ me.pc = "ExecuteWithRetry"
      /\ done.host \/ host = "created"    \* the host has a say only when it is called
      /\ doc' = IF added THEN doc + 1 ELSE doc
      /\ sessionContext' = IF added /\ me.enhanced # "new"
                           THEN [sessionContext EXCEPT ![me.enhanced] = object]
                           ELSE sessionContext
      /\ run' = [run EXCEPT ![r] =
           IF added /\ me.enhanced = "new" THEN [after EXCEPT !.fresh = object] ELSE after]
      /\ UNCHANGED <<clock, turns, _responseCache, _history>>

\* parameters = await _parameterExtractor.AdjustParametersAsync(parameters, result.ErrorMessage)
\* and the loop's attempt++
AdjustParameters(r) ==
  LET me == run[r]
  IN  /\ me.pc = "AdjustParameters"
      /\ run' = [run EXCEPT ![r] =
           [me EXCEPT !.pc = "ExecuteWithRetry",
                      !.parameters = AdjustParametersAsync(@, me.execResult.ErrorMessage),
                      !.attempt = @ + 1,
                      !.execLog = Append(@, AdjustEvent)]]
      /\ UNCHANGED <<clock, turns, _responseCache, _history, sessionContext, doc>>

\* return await _fallbackHandler.HandleFailedExecutionAsync(template, parameters, lastException)
ExecutionExhausted(r) ==
  LET me == run[r]
      failed == HandleFailedExecutionAsync(me.template, me.parameters, me.lastException)
  IN  /\ me.pc = "exhausted"
      /\ run' = [run EXCEPT ![r] =
           Returned([me EXCEPT !.fallbacks = Append(@, "HandleFailedExecutionAsync")], failed)]
      /\ UNCHANGED <<clock, turns, _responseCache, _history, sessionContext, doc>>

-----------------------------------------------------------------------------
(* ProcessWithAI *)

\* IsExpired with the comparison turned round
IsExpired_Reversed(cachedResponse, now) == cachedResponse.ExpiryTime > now

\* CachedResponse.IsExpired: DateTime.UtcNow > ExpiryTime
IsExpired(cachedResponse, now) == now > cachedResponse.ExpiryTime

\* CacheHit without the negation of IsExpired
CacheHit_Unnegated(cache, cacheKey, now) ==
  cacheKey \in DOMAIN cache /\ now > cache[cacheKey].ExpiryTime

\* _responseCache.TryGetValue(cacheKey, out cachedResponse) && !cachedResponse.IsExpired
CacheHit(cache, cacheKey, now) ==
  cacheKey \in DOMAIN cache /\ ~IsExpired(cache[cacheKey], now)

\* CacheStore with an entry that expires as it is written
CacheStore_NoTimeToLive(cache, cacheKey, finalResult, now) ==
  [k \in DOMAIN cache \cup {cacheKey} |->
     IF k = cacheKey THEN [Result |-> finalResult, ExpiryTime |-> now]
     ELSE cache[k]]

\* _responseCache[cacheKey] = new CachedResponse(finalResult, DateTime.UtcNow.AddMinutes(5))
CacheStore(cache, cacheKey, finalResult, now) ==
  [k \in DOMAIN cache \cup {cacheKey} |->
     IF k = cacheKey THEN [Result |-> finalResult, ExpiryTime |-> now + CacheMinutes]
     ELSE cache[k]]

\* lines 153-159: the cache check
ProcessWithAI(r) ==
  LET me == run[r]
      cacheKey == GenerateCacheKey(me.input, ContextObject(r, me.enhanced))
      present == cacheKey \in DOMAIN _responseCache
      hit == CacheHit(_responseCache, cacheKey, clock)
      seen == [made |-> TRUE, present |-> present,
               ExpiryTime |-> IF present THEN _responseCache[cacheKey].ExpiryTime ELSE 0,
               Result |-> IF present THEN _responseCache[cacheKey].Result ELSE NoResult,
               at |-> clock, served |-> hit]
      looked == [me EXCEPT !.cacheKey = cacheKey, !.lookup = seen]
  IN  /\ me.pc = "ProcessWithAI"
      /\ run' = [run EXCEPT ![r] =
           IF hit
           THEN [looked EXCEPT !.pc = "done", !.result = _responseCache[cacheKey].Result]
           ELSE [looked EXCEPT !.pc = "TryMultipleProvidersAsync", !.provider = 1]]
      /\ UNCHANGED <<clock, turns, _responseCache, _history, sessionContext, doc>>

\* Callable with the calls started without awaiting the one before
Callable_FanOut(me) ==
  {p \in 1..Len(Providers) : \A i \in 1..Len(me.calls) : me.calls[i].provider # p}

\* the providers TryMultipleProvidersAsync may call now: the one the foreach is
\* at, once no call is awaited
Callable(me) ==
  IF me.inFlight = {} /\ me.provider \in 1..Len(Providers) THEN {me.provider} ELSE {}

\* var result = await provider();  -- the call is made
CallProvider(r, p) ==
  LET me == run[r]
  IN  /\ me.pc = "TryMultipleProvidersAsync"
      /\ p \in Callable(me)
      /\ run' = [run EXCEPT ![r] =
           [me EXCEPT !.inFlight = @ \cup {p},
                      !.calls = Append(@, [provider |-> p, outcome |-> "pending"])]]
      /\ UNCHANGED <<clock, turns, _responseCache, _history, sessionContext, doc>>

\* AfterProvider returning an empty string, not throwing, past the last provider
AfterProvider_EmptyOnExhaustion(me, p, outcome) ==
  IF outcome.kind = "reply"
  THEN [me EXCEPT !.pc = "ParseWithRecoveryAsync", !.response = outcome.reply]
  ELSE IF p < Len(Providers)
  THEN [me EXCEPT !.provider = p + 1]
  ELSE [me EXCEPT !.pc = "ParseWithRecoveryAsync", !.provider = p + 1,
                  !.response = ReplyMalformed]

\* the foreach after provider p's call ended: a non-empty result is returned,
\* an exception or an empty result moves on, and past the last provider
\* InvalidOperationException("All AI providers failed") is thrown
AfterProvider(me, p, outcome) ==
  IF outcome.kind = "reply"
  THEN [me EXCEPT !.pc = "ParseWithRecoveryAsync", !.response = outcome.reply]
  ELSE IF p < Len(Providers)
  THEN [me EXCEPT !.provider = p + 1]
  ELSE [me EXCEPT !.pc = "catch", !.provider = p + 1,
                  !.lastException = "All AI providers failed"]

\* the awaited call of provider p ends
ProviderReturns(r, p, outcome) ==
  LET me == run[r]
      n == Len(me.calls)
      ended == [me EXCEPT !.inFlight = @ \ {p},
                          !.calls = [@ EXCEPT ![n].outcome = outcome.kind]]
  IN  /\ me.pc = "TryMultipleProvidersAsync"
      /\ p \in me.inFlight
      /\ me.calls[n].provider = p
      /\ run' = [run EXCEPT ![r] = AfterProvider(ended, p, outcome)]
      /\ UNCHANGED <<clock, turns, _responseCache, _history, sessionContext, doc>>

\* ParseReply returning Success, not Partial, for a reply without actions
ParseReply_SuccessWithoutActions(r) ==
  LET me == run[r]
      aiResponse == ParseWithRecoveryAsync(me.response)
  IN  /\ me.pc = "ParseWithRecoveryAsync"
      /\ run' = [run EXCEPT ![r] =
           IF aiResponse # None /\ Len(aiResponse.Actions) > 0
           THEN [me EXCEPT !.pc = "actions", !.actions = aiResponse.Actions,
                           !.results = << >>]
           ELSE [me EXCEPT !.pc = "done", !.result = Success(Line("done"))]]
      /\ UNCHANGED <<clock, turns, _responseCache, _history, sessionContext, doc>>

\* lines 179-200: the parse, and the branch on aiResponse?.Actions?.Count > 0
ParseReply(r) ==
  LET me == run[r]
      aiResponse == ParseWithRecoveryAsync(me.response)
  IN  /\ me.pc = "ParseWithRecoveryAsync"
      /\ run' = [run EXCEPT ![r] =
           IF aiResponse # None /\ Len(aiResponse.Actions) > 0
           THEN [me EXCEPT !.pc = "actions", !.actions = aiResponse.Actions,
                           !.results = << >>]
           ELSE [me EXCEPT !.pc = "done",
                   !.result = Partial(IF aiResponse # None /\ aiResponse.ResponseText # NoText
                                      THEN aiResponse.ResponseText
                                      ELSE Line("Could not process the request completely."))]]
      /\ UNCHANGED <<clock, turns, _responseCache, _history, sessionContext, doc>>

\* ProcessActionWithValidation(action, context): the action is executed by the
\* Command Executor
ProcessActionWithValidation(r) ==
  LET me == run[r]
      action == Head(me.actions)
  IN  /\ me.pc = "actions"
      /\ me.actions # << >>
      /\ run' = [run EXCEPT ![r] =
           Entered([me EXCEPT !.actions = Tail(@)], "ai",
                   TemplateOf(action.CommandName), action.Parameters)]
      /\ UNCHANGED <<clock, turns, _responseCache, _history, sessionContext, doc>>

\* lines 191-196: the Success result is built, cached and returned
CacheResult(r) ==
  LET me == run[r]
      finalResult == Success(Join(me.results))
  IN  /\ me.pc = "actions"
      /\ me.actions = << >>
      /\ _responseCache' = CacheStore(_responseCache, me.cacheKey, finalResult, clock)
      /\ run' = [run EXCEPT ![r] = [me EXCEPT !.pc = "done", !.result = finalResult]]
      /\ UNCHANGED <<clock, turns, _history, sessionContext, doc>>

\* the catch of ProcessNaturalLanguageAsync
CatchException(r) ==
  LET me == run[r]
  IN  /\ me.pc = "catch"
      /\ run' = [run EXCEPT ![r] =
           [me EXCEPT !.pc = "done",
                      !.fallbacks = Append(@, "HandleExceptionAsync"),
                      !.result = HandleExceptionAsync(me.lastException, me.input)]]
      /\ UNCHANGED <<clock, turns, _responseCache, _history, sessionContext, doc>>

\* The clock is read by the cache check and by the cache write only: a minute
\* passes while a request is about to do either.
ReadsClock(me) ==
  me.pc = "ProcessWithAI" \/ (me.pc = "actions" /\ me.actions = << >>)

Tick ==
  /\ clock < MaxClock
  /\ \E r \in Requests : ReadsClock(run[r])
  /\ clock' = clock + 1
  /\ UNCHANGED <<turns, _responseCache, _history, sessionContext, doc, run>>

-----------------------------------------------------------------------------
(* The specification *)

\* the utterances given to a classifier handed to the constructor
UnroutedUtterances == {UChat}

Contexts == Sessions \cup {NULL}

Next ==
  \/ \E r \in Requests, input \in Utterances, context \in Contexts :
       ProcessNaturalLanguageAsync(r, input, context)
  \/ \E r \in Requests, input \in UnroutedUtterances, context \in Contexts :
       ProcessUnroutedIntent(r, input, context)
  \/ \E r \in Requests : EnhanceContextAsync(r)
  \/ \E r \in Requests : ProcessDirectCommand(r)
  \/ \E r \in Requests : ProcessModification(r)
  \/ \E r \in Requests, host \in HostOutcomes : ExecuteWithRetry(r, host)
  \/ \E r \in Requests : AdjustParameters(r)
  \/ \E r \in Requests : ExecutionExhausted(r)
  \/ \E r \in Requests : ProcessWithAI(r)
  \/ \E r \in Requests, p \in 1..Len(Providers) : CallProvider(r, p)
  \/ \E r \in Requests, p \in 1..Len(Providers), outcome \in ProviderOutcomes :
       ProviderReturns(r, p, outcome)
  \/ \E r \in Requests : ParseReply(r)
  \/ \E r \in Requests : ProcessActionWithValidation(r)
  \/ \E r \in Requests : CacheResult(r)
  \/ \E r \in Requests : CatchException(r)
  \/ Tick

Spec == Init /\ [][Next]_vars

\* the steps of request r's run once it has started
RunStep(r) ==
  \/ EnhanceContextAsync(r)
  \/ ProcessDirectCommand(r)
  \/ ProcessModification(r)
  \/ \E host \in HostOutcomes : ExecuteWithRetry(r, host)
  \/ AdjustParameters(r)
  \/ ExecutionExhausted(r)
  \/ ProcessWithAI(r)
  \/ \E p \in 1..Len(Providers) : CallProvider(r, p)
  \/ \E p \in 1..Len(Providers), outcome \in ProviderOutcomes : ProviderReturns(r, p, outcome)
  \/ ParseReply(r)
  \/ ProcessActionWithValidation(r)
  \/ CacheResult(r)
  \/ CatchException(r)

\* every awaited collaborator returns, and a continuation that can run is run
FairSpec == Spec /\ \A r \in Requests : WF_vars(RunStep(r))

-----------------------------------------------------------------------------
(* Sphere requests through the built-in classifier and the direct path *)

\* the utterances that state a radius of -2
NegativeRadiusUtterances == {USpecNeg, USphereNeg}

SphereUtterances ==
  NegativeRadiusUtterances \cup {USpecSphere, USphere5, USphere0, USphereLarge}

DirectNext ==
  \/ \E r \in Requests, input \in SphereUtterances, context \in Contexts :
       ProcessNaturalLanguageAsync(r, input, context)
  \/ \E r \in Requests : EnhanceContextAsync(r)
  \/ \E r \in Requests : ProcessDirectCommand(r)
  \/ \E r \in Requests, host \in HostOutcomes : ExecuteWithRetry(r, host)
  \/ \E r \in Requests : AdjustParameters(r)
  \/ \E r \in Requests : ExecutionExhausted(r)

DirectSpec == Init /\ [][DirectNext]_vars

-----------------------------------------------------------------------------
(* The conversation history on its own.                                     *)
(* EnhanceContextAsync is the only method that reads or writes _history and *)
(* RecentOperations.  The two specifications below run the pipeline up to   *)
(* the switch on the category and let the handler return a result without   *)
(* following the execution of the command, so that a behaviour can hold     *)
(* more turns than the history has room for.                                *)

\* Number of turns of a behaviour of HistorySpec: one more than the capacity.
MaxHistoryTurns == 11

\* Number of turns of a behaviour of SessionSpec.
MaxSessionTurns == 3

\* utterances the built-in classifier is confident about: every one is a turn
\* of the history
HistoryUtterances == {USphere5, UModify}

\* the callers' ConversationContext objects in SessionSpec
TwoSessions == {"A", "B"}

\* a request arrives, as in ProcessNaturalLanguageAsync, in a behaviour of at
\* most limit turns
TurnArrives(r, input, context, limit) ==
  /\ run[r].pc \in {"idle", "done"}
  /\ turns < limit
  /\ turns' = turns + 1
  /\ run' = [run EXCEPT ![r] =
       Started(r, input, context,
               ClassifyIntentAsync(input, ContextObject(r, context)), "builtin")]
  /\ UNCHANGED <<clock, _responseCache, _history, sessionContext, doc>>

\* what the handler called by the switch may return
HandlerResults == {Success(Line("done")), Error(Line("failed"))}

\* return await ProcessDirectCommand(...) / ProcessModification(...): the
\* handler returns its result
HandlerReturns(r, result) ==
  /\ run[r].pc \in {"ProcessDirectCommand", "ProcessModification"}
  /\ run' = [run EXCEPT ![r] = [run[r] EXCEPT !.pc = "done", !.result = result]]
  /\ UNCHANGED <<clock, turns, _responseCache, _history, sessionContext, doc>>

HistoryNext ==
  \/ \E r \in Requests, input \in HistoryUtterances, context \in Sessions :
       TurnArrives(r, input, context, MaxHistoryTurns)
  \/ \E r \in Requests : EnhanceContextAsync(r)
  \/ \E r \in Requests, result \in HandlerResults : HandlerReturns(r, result)

\* one session, up to MaxHistoryTurns turns
HistorySpec == Init /\ [][HistoryNext]_vars

SessionInit ==
  /\ clock = 0
  /\ turns = 0
  /\ _responseCache = << >>
  /\ _history = << >>
  /\ sessionContext = [s \in TwoSessions |-> NewContext]
  /\ doc = 0
  /\ run = [r \in Requests |-> IdleRun]

SessionNext ==
  \/ \E r \in Requests, input \in HistoryUtterances, context \in TwoSessions :
       TurnArrives(r, input, context, MaxSessionTurns)
  \/ \E r \in Requests : EnhanceContextAsync(r)
  \/ \E r \in Requests, result \in HandlerResults : HandlerReturns(r, result)

\* two sessions taking turns through the one processor
SessionSpec == SessionInit /\ [][SessionNext]_vars

-----------------------------------------------------------------------------
(* Two requests in ProcessWithAI at once.                                    *)
(* _responseCache is a Dictionary used under no lock, and the continuation   *)
(* of an await outside a synchronisation context runs on a thread of the     *)
(* pool: the runs of two requests proceed in parallel, and the steps of one  *)
(* are its accesses to the shared dictionary and its readings of the clock.  *)
(* Each access is taken as one step, which is the most the Dictionary can    *)
(* give to unsynchronised callers.                                           *)

MaxCacheTurns == 3
MaxCacheClock == 7

ConcurrentRequests == {1, 2}

\* what a provider's call gives in these behaviours
CacheProviderOutcomes ==
  {[kind |-> "throws", reply |-> NoReply],
   [kind |-> "reply", reply |-> ReplyActions(<<ASphere5>>)]}

\* a request with the fingerprint of UChat arrives and is given to ProcessWithAI
ConcurrentTurnArrives(r, input, context) ==
  /\ run[r].pc \in {"idle", "done"}
  /\ turns < MaxCacheTurns
  /\ turns' = turns + 1
  /\ run' = [run EXCEPT ![r] = Started(r, input, context, UnroutedIntent, "injected")]
  /\ UNCHANGED <<clock, _responseCache, _history, sessionContext, doc>>

\* line 194, right-hand side:
\* new CachedResponse(finalResult, DateTime.UtcNow.AddMinutes(5))
NewCachedResponse(r) ==
  LET me == run[r]
      finalResult == Success(Join(me.results))
  IN  /\ me.pc = "actions"
      /\ me.actions = << >>
      /\ run' = [run EXCEPT ![r] =
           [me EXCEPT !.pc = "store", !.result = finalResult,
                      !.cached = [Result |-> finalResult,
                                  ExpiryTime |-> clock + CacheMinutes]]]
      /\ UNCHANGED <<clock, turns, _responseCache, _history, sessionContext, doc>>

\* line 194, the assignment: _responseCache[cacheKey] = <the object built>
SetCacheEntry(r) ==
  LET me == run[r]
  IN  /\ me.pc = "store"
      /\ _responseCache' =
           [k \in DOMAIN _responseCache \cup {me.cacheKey} |->
              IF k = me.cacheKey THEN me.cached ELSE _responseCache[k]]
      /\ run' = [run EXCEPT ![r] = [me EXCEPT !.pc = "done"]]
      /\ UNCHANGED <<clock, turns, _history, sessionContext, doc>>

\* time passes while some request is about to read the clock
ConcurrentTick ==
  /\ clock < MaxCacheClock
  /\ \E r \in ConcurrentRequests : ReadsClock(run[r])
  /\ clock' = clock + 1
  /\ UNCHANGED <<turns, _responseCache, _history, sessionContext, doc, run>>

CacheInit ==
  /\ clock = 0
  /\ turns = 0
  /\ _responseCache = << >>
  /\ _history = << >>
  /\ sessionContext = [s \in Sessions |-> NewContext]
  /\ doc = 0
  /\ run = [r \in ConcurrentRequests |-> IdleRun]

CacheNext ==
  \/ \E r \in ConcurrentRequests : ConcurrentTurnArrives(r, UChat, NULL)
  \/ \E r \in ConcurrentRequests : EnhanceContextAsync(r)
  \/ \E r \in ConcurrentRequests : ProcessWithAI(r)
  \/ \E r \in ConcurrentRequests, p \in 1..Len(Providers) : CallProvider(r, p)
  \/ \E r \in ConcurrentRequests, p \in 1..Len(Providers),
        outcome \in CacheProviderOutcomes : ProviderReturns(r, p, outcome)
  \/ \E r \in ConcurrentRequests : ParseReply(r)
  \/ \E r \in ConcurrentRequests : ProcessActionWithValidation(r)
  \/ \E r \in ConcurrentRequests : ExecuteWithRetry(r, "created")
  \/ \E r \in ConcurrentRequests : NewCachedResponse(r)
  \/ \E r \in ConcurrentRequests : SetCacheEntry(r)
  \/ \E r \in ConcurrentRequests : CatchException(r)
  \/ ConcurrentTick

CacheSpec == CacheInit /\ [][CacheNext]_vars

-----------------------------------------------------------------------------
(* Creations asked for by a provider's reply: the parameters of an action    *)
(* are the reply's, and a center may come as an array of coordinates.        *)

CreationProviderOutcomes ==
  {[kind |-> "throws", reply |-> NoReply],
   [kind |-> "reply", reply |-> ReplyActions(<<ASphereAt>>)],
   [kind |-> "reply", reply |-> ReplyActions(<<ASphere5>>)]}

CreationNext ==
  \/ \E r \in Requests, context \in Contexts : ProcessUnroutedIntent(r, UChat, context)
  \/ \E r \in Requests : EnhanceContextAsync(r)
  \/ \E r \in Requests : ProcessWithAI(r)
  \/ \E r \in Requests, p \in 1..Len(Providers) : CallProvider(r, p)
  \/ \E r \in Requests, p \in 1..Len(Providers), outcome \in CreationProviderOutcomes :
       ProviderReturns(r, p, outcome)
  \/ \E r \in Requests : ParseReply(r)
  \/ \E r \in Requests : ProcessActionWithValidation(r)
  \/ \E r \in Requests, host \in HostOutcomes : ExecuteWithRetry(r, host)
  \/ \E r \in Requests : AdjustParameters(r)
  \/ \E r \in Requests : ExecutionExhausted(r)
  \/ \E r \in Requests : CacheResult(r)
  \/ \E r \in Requests : CatchException(r)
  \/ Tick

CreationSpec == Init /\ [][CreationNext]_vars

-----------------------------------------------------------------------------
(* The classifier on its own: requests of every kind of match, the handler   *)
(* returning a result as in HistorySpec.                                     *)

MaxClassifierTurns == 2

ClassifierUtterances ==
  {UChat, UCreate, UCube, UEverything, USphere5, USpecSphere, UModify}

ClassifierNext ==
  \/ \E r \in Requests, input \in ClassifierUtterances, context \in Contexts :
       TurnArrives(r, input, context, MaxClassifierTurns)
  \/ \E r \in Requests : EnhanceContextAsync(r)
  \/ \E r \in Requests, result \in HandlerResults : HandlerReturns(r, result)

ClassifierSpec == Init /\ [][ClassifierNext]_vars

-----------------------------------------------------------------------------
(* Properties *)

Running(me) == me.pc \notin {"idle", "done"}

Failed(outcome) == outcome \in {"throws", "empty"}

\* the attempts among the entries of an execLog
AttemptsIn(log) == {i \in 1..Len(log) : log[i].kind = "attempt"}
AdjustmentsIn(log) == {i \in 1..Len(log) : log[i].kind = "adjust"}

\* C1: a request whose classification has confidence >= 0.7 and a matched
\* template never enters ProcessWithAI and never calls a provider.
C1_ConfidentTemplateCallsNoProvider ==
  \A r \in Requests :
    LET me == run[r]
    IN  ( /\ me.pc # "idle"
          /\ me.intentResult.Confidence >= ConfidenceThreshold
          /\ me.intentResult.CommandTemplate # NoTemplate )
        => /\ me.calls = << >>
           /\ me.inFlight = {}
           /\ ~me.lookup.made
           /\ me.pc \notin {"ProcessWithAI", "TryMultipleProvidersAsync",
                            "ParseWithRecoveryAsync"}

\* C1 witness: a confident request with a template has run to a Success
C1_Witness ==
  \E r \in Requests :
    /\ run[r].pc = "done"
    /\ run[r].intentResult.Confidence >= ConfidenceThreshold
    /\ run[r].intentResult.CommandTemplate = CreateSphereTemplate
    /\ run[r].executions = 1
    /\ run[r].result.Type = "Success"

\* C2 (as claimed): a request whose confidence is below 0.7, or whose category
\* is none of DirectCommand, Modification and Query, has gone through the cache
\* check of ProcessWithAI by the time it has a result.
C2_LowConfidenceReachesOrchestrator ==
  \A r \in Requests :
    LET me == run[r]
    IN  ( /\ me.pc = "done"
          /\ ~IsNullOrWhiteSpace(me.input)
          /\ \/ me.intentResult.Confidence < ConfidenceThreshold
             \/ me.intentResult.Category \notin {"DirectCommand", "Modification", "Query"} )
        => me.lookup.made

\* C3: a cached result is never returned by a check made after its expiry time.
C3_NoResultPastExpiry ==
  \A r \in Requests :
    run[r].lookup.served => run[r].lookup.at <= run[r].lookup.ExpiryTime

\* C3 witness: a check found an entry past its expiry and went on to the providers
C3_Witness ==
  \E r \in Requests :
    /\ run[r].lookup.present
    /\ run[r].lookup.at > run[r].lookup.ExpiryTime
    /\ ~run[r].lookup.served
    /\ run[r].calls # << >>

\* C4 (as claimed): when the check of a request found an expired entry, then at
\* the end of the request the entry is gone from the cache or replaced by a
\* fresher one.
C4_ExpiredEntryEvictedOrOverwritten ==
  \A r \in Requests :
    LET me == run[r]
    IN  ( /\ me.pc = "done"
          /\ me.lookup.present
          /\ me.lookup.at > me.lookup.ExpiryTime )
        => \/ me.cacheKey \notin DOMAIN _responseCache
           \/ _responseCache[me.cacheKey].ExpiryTime > me.lookup.ExpiryTime

\* C5: when the check finds a live entry, its result is returned at once: no
\* provider is called and no command is executed in that request.
C5_LiveHitBypassesProviders ==
  \A r \in Requests :
    LET me == run[r]
    IN  ( /\ me.lookup.made
          /\ me.lookup.present
          /\ me.lookup.at <= me.lookup.ExpiryTime )
        => /\ me.lookup.served
           /\ me.pc = "done"
           /\ me.result = me.lookup.Result
           /\ me.calls = << >>
           /\ me.inFlight = {}
           /\ me.executions = 0

\* C5 witness: a request ended with the result of a live entry
C5_Witness ==
  \E r \in Requests :
    /\ run[r].pc = "done"
    /\ run[r].lookup.served
    /\ run[r].result.Type = "Success"

\* C6: the providers are called one at a time in the order of the list; the
\* next is called only after the one before threw or returned an empty reply,
\* and none after a non-empty reply.
C6_ProvidersInOrderOneAtATime ==
  \A r \in Requests :
    LET me == run[r]
        n == Len(me.calls)
    IN  /\ Cardinality(me.inFlight) <= 1
        /\ \A i \in 1..n : me.calls[i].provider = i
        /\ \A i \in 1..(n - 1) : Failed(me.calls[i].outcome)
        /\ me.inFlight # {} => me.inFlight = {n} /\ me.calls[n].outcome = "pending"
        /\ (n > 0 /\ me.inFlight = {}) => me.calls[n].outcome # "pending"
        /\ (n > 0 /\ me.calls[n].outcome = "reply") => me.pc # "TryMultipleProvidersAsync"

\* C6 witness: the first provider failed and the second gave the reply
C6_Witness ==
  \E r \in Requests :
    /\ Len(run[r].calls) = 2
    /\ run[r].calls[1].outcome = "empty"
    /\ run[r].calls[2].outcome = "reply"

\* C7: when every provider failed, the exhaustion is handed to the Fallback
\* Handler and the request's result is Error.
C7_ExhaustionGivesError ==
  \A r \in Requests :
    LET me == run[r]
    IN  ( /\ me.pc = "done"
          /\ Len(me.calls) = Len(Providers)
          /\ \A i \in 1..Len(me.calls) : Failed(me.calls[i].outcome) )
        => /\ me.result.Type = "Error"
           /\ me.lastException = "All AI providers failed"
           /\ me.fallbacks = <<"HandleExceptionAsync">>

\* C7 witness: both providers failed and the request ended
C7_Witness ==
  \E r \in Requests :
    /\ run[r].pc = "done"
    /\ Len(run[r].calls) = 2
    /\ run[r].calls[1].outcome = "throws"
    /\ run[r].calls[2].outcome = "empty"
    /\ run[r].result.Type = "Error"

\* C8: one ExecuteWithRetry makes at most 3 attempts and one request at most as
\* many provider calls as there are providers; a request that has ended has a
\* result, and every request that has started ends.
C8_Bounded ==
  \A r \in Requests :
    LET me == run[r]
    IN  /\ Cardinality(AttemptsIn(me.execLog)) <= 3
        /\ me.attempt <= 3
        /\ Len(me.calls) <= Len(Providers)
        /\ me.pc = "done" => me.result.Type \in {"Success", "Error", "Warning", "Partial"}

C8_BoundedRetriesAndTermination ==
  /\ []C8_Bounded
  /\ \A r \in Requests : [](Running(run[r]) => <>(run[r].pc = "done"))

\* C8 witness: a third attempt failed and the run ended through the fallback
C8_Witness ==
  \E r \in Requests :
    /\ run[r].pc = "done"
    /\ Cardinality(AttemptsIn(run[r].execLog)) = 3
    /\ ~run[r].execLog[Len(run[r].execLog)].success
    /\ run[r].fallbacks = <<"HandleFailedExecutionAsync">>

\* C9: attempts and adjustments alternate: a failed attempt that is not the
\* third is followed by exactly one adjustment and then the next attempt, no
\* adjustment follows the third attempt or a success, and a success on the third
\* attempt comes after exactly two adjustments.
C9_AdjustBetweenAttempts ==
  \A r \in Requests :
    LET me == run[r]
        log == me.execLog
        n == Len(log)
    IN  /\ \A i \in 1..n : (log[i].kind = "attempt") <=> (i % 2 = 1)
        /\ n <= 2 * maxRetries - 1
        /\ \A i \in AttemptsIn(log) : log[i].success => i = n
        /\ \A i \in AttemptsIn(log) :
             (~log[i].success /\ i < 2 * maxRetries - 1 /\ i = n)
               => me.pc = "AdjustParameters"
        /\ me.pc = "AdjustParameters" => (n > 0 /\ log[n].kind = "attempt" /\ ~log[n].success)
        /\ me.pc = "ExecuteWithRetry" => (n = 0 \/ log[n].kind = "adjust")
        /\ me.attempt >= Cardinality(AdjustmentsIn(log))
        /\ (n = 2 * maxRetries - 1 /\ log[n].success)
             => /\ Cardinality(AttemptsIn(log)) = 3
                /\ Cardinality(AdjustmentsIn(log)) = 2

\* C9 witness: the dispatch failed twice without raising and then succeeded
C9_Witness ==
  \E r \in Requests :
    LET log == run[r].execLog
    IN  /\ run[r].pc = "done"
        /\ run[r].caller = "direct"
        /\ Len(log) = 5
        /\ log[1].dispatched /\ ~log[1].success
        /\ log[3].dispatched /\ ~log[3].success
        /\ log[5].dispatched /\ log[5].success
        /\ run[r].result.Type = "Success"

RegisteredCommands == {"CreateSphere", "CreateBox", "CreateCylinder"}

\* C11 (as claimed): a template whose command name has no registered domain
\* action is attempted exactly once: after its first attempt there is no
\* adjustment and no further attempt, and the result that ends it is Error.
C11_UnknownCommandNotRetried ==
  \A r \in Requests :
    LET me == run[r]
        log == me.execLog
    IN  ( /\ me.template # NoTemplate
          /\ me.template.CommandName \notin RegisteredCommands
          /\ log # << >> )
        => /\ Len(log) = 1
           /\ me.pc \notin {"AdjustParameters", "ExecuteWithRetry"}
           /\ me.execResult.Type = "Error"

\* C12: a request with an empty or white-space utterance ends at once with the
\* Error "Please provide a valid input.": no intent is taken from a classifier,
\* the history, the contexts, the cache, the document and the clock are left as
\* they were, and the run holds no cache check, provider call, execution or
\* fallback.
C12_BlankInputTouchesNothing ==
  [][\A r \in Requests :
       ( /\ run[r].pc \in {"idle", "done"}
         /\ turns' = turns + 1
         /\ IsNullOrWhiteSpace(run'[r].input) )
       => /\ run'[r].pc = "done"
          /\ run'[r].result = Error(Line("Please provide a valid input."))
          /\ run'[r].intentResult = IdleRun.intentResult
          /\ run'[r].enhanced = NULL
          /\ ~run'[r].lookup.made
          /\ run'[r].calls = << >>
          /\ run'[r].executions = 0
          /\ run'[r].execLog = << >>
          /\ run'[r].fallbacks = << >>
          /\ UNCHANGED <<_history, sessionContext, _responseCache, doc, clock>>]_vars

\* C12 witness: a blank request ended with Error after an earlier request had
\* left a turn in the history and an object in the document
C12_Witness ==
  \E r \in Requests :
    /\ run[r].pc = "done"
    /\ turns = 2
    /\ IsNullOrWhiteSpace(run[r].input)
    /\ run[r].result.Type = "Error"
    /\ _history # << >>
    /\ doc = 1

\* the tags of the last n turns of a history, in order, turns without a tag
\* left out
TagsOfLast(history, n) ==
  LET k == IF Len(history) < n THEN Len(history) ELSE n
      tags == [i \in 1..k |-> ExtractOperation(history[Len(history) - k + i])]
  IN  SelectSeq(tags, LAMBDA tag : tag # << >>)

\* C13, in every state: the history holds at most 10 turns, and exactly
\* min(turns, 10) once the turn has ended, the newest being the turn in hand;
\* the recent operations of the session are at most 5 tags, those of the last 5
\* turns still in the history.
C13_HistoryBounded ==
  /\ Len(_history) <= 10
  /\ \A r \in Requests :
       run[r].pc \in {"idle", "done"}
         => Len(_history) = (IF turns < 10 THEN turns ELSE 10)
  /\ \A r \in Requests :
       run[r].pc \notin {"idle", "enhance"}
         => _history # << >> /\ _history[Len(_history)] = run[r].input
  /\ \A s \in Sessions :
       /\ Len(sessionContext[s].RecentOperations) <= 5
       /\ sessionContext[s].RecentOperations = TagsOfLast(_history, 5)

\* C13: the history is bounded as above in every state, and every change of
\* it appends the turn's utterance at the end, dropping the oldest turn, and no
\* other, when 10 turns are already held (FIFO).
C13_HistoryBoundedFifo ==
  /\ []C13_HistoryBounded
  /\ [][_history' # _history
          => \E r \in Requests :
               /\ run[r].pc = "enhance"
               /\ _history' = IF Len(_history) < 10
                              THEN Append(_history, run[r].input)
                              ELSE Append(Tail(_history), run[r].input)]_vars

\* C13 witness: the eleventh turn has ended, every turn was appended, the
\* history holds ten turns, the last of them the eleventh, and five tags are
\* derived
C13_Witness ==
  \E r \in Requests, s \in Sessions :
    /\ run[r].pc = "done"
    /\ turns = 11
    /\ Len(_history) = 10
    /\ _history[10] = UModify
    /\ _history[1] = UModify
    /\ Len(sessionContext[s].RecentOperations) = 5
    /\ sessionContext[s].RecentOperations[5] = <<"modify">>

\* a is the end of b
IsSuffix(a, b) ==
  Len(a) <= Len(b) /\ a = SubSeq(b, Len(b) - Len(a) + 1, Len(b))

\* C14 (as claimed): the recent operations derived for a session at its turn
\* come from that session's own turns: they are the end of the tags it had
\* before followed by the tag of this turn, whatever turns other sessions took
\* in between, and the turn leaves the other sessions' contexts as they were.
C14_TagsComeFromOwnSession ==
  [][\A r \in Requests :
       ( /\ run[r].pc = "enhance"
         /\ run'[r].pc # "enhance"
         /\ run[r].context \in TwoSessions )
       => LET s == run[r].context
              before == sessionContext[s].RecentOperations
              tag == ExtractOperation(run[r].input)
              own == IF tag = << >> THEN before ELSE Append(before, tag)
          IN  /\ IsSuffix(sessionContext'[s].RecentOperations, own)
              /\ \A other \in TwoSessions \ {s} :
                   sessionContext'[other] = sessionContext[other]]_vars

\* C15: the cache changes only in the step that ends a request whose parsed
\* reply held at least one action: that step returns Success and stores it
\* under the request's fingerprint with expiry time now + 5, leaving the other
\* entries alone; a reply with no actions ends the request with Partial and
\* leaves the cache as it was.
C15_CacheWrittenOnlyWithActions ==
  [][/\ _responseCache' # _responseCache
          => \E r \in Requests :
               /\ run[r].pc = "actions"
               /\ run[r].response.Actions # << >>
               /\ Len(run[r].results) = Len(run[r].response.Actions)
               /\ run'[r].pc = "done"
               /\ run'[r].result.Type = "Success"
               /\ DOMAIN _responseCache' = DOMAIN _responseCache \cup {run[r].cacheKey}
               /\ _responseCache'[run[r].cacheKey] =
                    [Result |-> run'[r].result, ExpiryTime |-> clock + 5]
               /\ \A k \in DOMAIN _responseCache \ {run[r].cacheKey} :
                    _responseCache'[k] = _responseCache[k]
     /\ \A r \in Requests :
          (run[r].pc = "ParseWithRecoveryAsync" /\ run'[r].pc = "done")
            => /\ run'[r].result.Type = "Partial"
               /\ _responseCache' = _responseCache]_vars

\* C15 witness: a request that missed the cache ended with Success some minutes
\* into the behaviour, and the cache holds that result for 5 more minutes
C15_Witness ==
  \E r \in Requests :
    /\ run[r].pc = "done"
    /\ run[r].lookup.made /\ ~run[r].lookup.served
    /\ run[r].result.Type = "Success"
    /\ clock > 0
    /\ run[r].cacheKey \in DOMAIN _responseCache
    /\ _responseCache[run[r].cacheKey] = [Result |-> run[r].result, ExpiryTime |-> clock + 5]

\* C16 (as claimed): a sphere request that states the radius -2 never reaches
\* the Command Executor and ends with the Error of the validation's radius
\* message.
C16_NegativeRadiusRejected ==
  \A r \in Requests :
    LET me == run[r]
    IN  me.input \in NegativeRadiusUtterances
          => /\ me.executions = 0
             /\ me.pc = "done"
                  => me.result = Error(<<"Invalid parameters: ",
                                         "Sphere radius must be positive">>)

\* C17 (as claimed): the request "Create a sphere with radius 5 at the origin"
\* is classified to the CreateSphere template and, the host creating what it is
\* asked to, ends in Success after one execution of one attempt with the
\* parameters center = (0,0,0) and radius = 5.
C17_SpecSphereSucceedsFirstAttempt ==
  \A r \in Requests :
    LET me == run[r]
        log == me.execLog
    IN  ( /\ me.pc = "done"
          /\ me.input = USpecSphere
          /\ \A i \in AttemptsIn(log) : log[i].dispatched => log[i].success )
        => /\ me.intentResult.CommandTemplate = CreateSphereTemplate
           /\ me.parameters = [center |-> Point(Origin), radius |-> Double(5)]
           /\ me.executions = 1
           /\ Len(log) = 1
           /\ log[1].valid /\ log[1].dispatched /\ log[1].success
           /\ me.result.Type = "Success"

\* the messages of the exceptions raised in a run
ExceptionTexts == {"host", "All AI providers failed"}

\* the lines of a ProcessingResult's texts
LinesOf(result) ==
  {result.Message[i] : i \in 1..Len(result.Message)}
    \cup {result.ErrorMessage[i] : i \in 1..Len(result.ErrorMessage)}

\* C18: no exception leaves the run: what the caller gets is a ProcessingResult
\* of one of the four variants, none of its texts holds the message of an
\* exception, and a run that ended in the catch of ProcessNaturalLanguageAsync
\* gives the Error with the one generic message.
C18_NoExceptionDetailInResult ==
  \A r \in Requests :
    LET me == run[r]
    IN  /\ me.result.Type # "exception"
        /\ LinesOf(me.result) \cap ExceptionTexts = {}
        /\ me.pc = "done"
             => /\ me.result.Type \in {"Success", "Error", "Warning", "Partial"}
                /\ me.lastException # NULL
                     => /\ me.result = Error(Line("The request could not be processed."))
                        /\ me.fallbacks = <<"HandleExceptionAsync">>

\* C18 witness: the host raised in the last attempt of an execution, whose
\* catch made "Execution failed: host" of it, and the request ended with an
\* Error that does not hold it
C18_Witness ==
  \E r \in Requests :
    /\ run[r].pc = "done"
    /\ run[r].caller = "direct"
    /\ run[r].execResult = Error(<<"Execution failed: ", "host">>)
    /\ run[r].result.Type = "Error"

\* the cache check of request me found an entry under its key that had expired
FoundExpired(me) ==
  me.lookup.made /\ me.lookup.present /\ me.lookup.at > me.lookup.ExpiryTime

\* C19: the cache operations are atomic with respect to the expiry check when
\* two requests with the same fingerprint run at once: no entry is ever
\* removed from the cache, a cache check changes nothing in the cache and
\* returns an entry only if it has not expired, and a request whose check
\* found an expired entry never puts back an entry less fresh than the one
\* another request has inserted in the meantime.
C19_ExpiryCheckAtomic ==
  [][/\ \A k \in DOMAIN _responseCache : k \in DOMAIN _responseCache'
     /\ \A r \in ConcurrentRequests :
          /\ (run[r].pc = "ProcessWithAI" /\ run'[r].pc # "ProcessWithAI") =>
               /\ _responseCache' = _responseCache
               /\ run'[r].lookup.served =>
                    run'[r].lookup.at <= run'[r].lookup.ExpiryTime
          /\ (FoundExpired(run[r]) /\ run[r].pc = "store" /\ run'[r].pc = "done") =>
               \A k \in DOMAIN _responseCache :
                 _responseCache'[k].ExpiryTime >= _responseCache[k].ExpiryTime]_vars

\* C20: every turn with a non-blank utterance appends one ConversationTurn and
\* refreshes the context at the start of the turn, before the classifier
\* reads the context and whatever the confidence: once the request has been
\* classified, and still when it has ended, the newest turn of the history is
\* its utterance.
C20_TurnRecordedBeforeClassification ==
  \A r \in Requests :
    (run[r].pc # "idle" /\ ~IsNullOrWhiteSpace(run[r].input)) =>
      /\ _history # << >>
      /\ _history[Len(_history)] = run[r].input

\* the last attempt of request me ended with an exception raised by the host
LastAttemptRaised(me) ==
  /\ me.pc \in {"AdjustParameters", "ExecuteWithRetry", "exhausted"}
  /\ me.execResult.ErrorMessage = <<"Execution failed: ", "host">>

\* C21: a dispatch attempt that raises is caught inside ExecuteWithRetry and
\* recorded as the last failure; unless it was the last allowed attempt it is
\* followed, before the next attempt, by a delay of BaseDelay * 2^attempt, and
\* by nothing else; no delay follows the last attempt.
C21_RaisedAttemptBacksOff ==
  \A r \in Requests :
    LET me == run[r]
        n == Len(me.execLog)
    IN  LastAttemptRaised(me) =>
          /\ me.lastException # NULL
          /\ me.pc # "AdjustParameters"
          /\ me.pc = "ExecuteWithRetry" =>
               me.execLog[n] = DelayEvent(BaseDelay * 2 ^ (me.attempt - 1))
          /\ me.pc = "exhausted" => me.execLog[n].kind = "attempt"

\* the number of calls of the fallback method named in the sequence fallbacks
RECURSIVE CallsOf(_, _)
CallsOf(fallbacks, method) ==
  IF fallbacks = << >> THEN 0
  ELSE (IF Head(fallbacks) = method THEN 1 ELSE 0) + CallsOf(Tail(fallbacks), method)

\* C22: when ExecuteWithRetry has used up its attempts the Fallback Handler is
\* called once, and the failure detail it is given (lastException, the only
\* argument that can carry one) is that of the last failed attempt, whether
\* the attempt raised or reported non-success: it is not null.
C22_FallbackReceivesLastFailure ==
  \A r \in Requests :
    /\ run[r].pc = "exhausted" => run[r].lastException # NULL
    /\ CallsOf(run[r].fallbacks, "HandleFailedExecutionAsync") <= run[r].executions

\* the ConversationContext object request me executes its commands with
ExecutionContext(me, contexts) ==
  IF me.enhanced = "new" THEN me.fresh ELSE contexts[me.enhanced]

\* C23: an execution that creates an entity leaves in LastCreatedObject the
\* entity's identifier, its type tag, the parameters it was created from and
\* the position it was created at, which is the center the creation used; an
\* execution that creates nothing leaves LastCreatedObject unchanged.
C23_LastCreatedObjectIsTheEntity ==
  [][\A r \in Requests :
       (run[r].pc = "ExecuteWithRetry" /\ run'[r] # run[r]) =>
         LET me == run[r]
             before == ExecutionContext(me, sessionContext).LastCreatedObject
             after == ExecutionContext(run'[r], sessionContext').LastCreatedObject
         IN  IF doc' = doc + 1
             THEN after = [Id |-> doc',
                           Type |-> IF me.template.CommandName = "CreateSphere"
                                    THEN "sphere" ELSE "object",
                           Parameters |-> me.parameters,
                           Position |-> GetPoint3d(me.parameters, "center", Origin)]
             ELSE after = before]_vars

\* a provider's reply that cannot be parsed even after the repair pass
Unparsable(response) ==
  response # NoReply /\ ParseWithRecoveryAsync(response) = None

\* C24: a reply that cannot be parsed even after the repair pass counts as a
\* failure of its provider: the next provider is tried, so a request ends on
\* such a reply only after every provider has been called, and then with an
\* Error; the reply is never turned into a Success and nothing is cached.
C24_UnparsableReplyIsProviderFailure ==
  \A r \in Requests :
    (run[r].pc = "done" /\ Unparsable(run[r].response)) =>
      /\ Len(run[r].calls) = Len(Providers)
      /\ run[r].result.Type = "Error"
      /\ run[r].cacheKey \notin DOMAIN _responseCache

\* 0.7 * keyword_score + 0.3 * context_score of pattern i, in the units of the
\* model; the context score is 0.1 for a context and 0 for none
PatternConfidence(input, context, i) ==
  LET pattern == InitializeIntentPatterns[i]
      low == ToLowerInvariant(input)
      matched == {k \in 1..Len(pattern.Keywords) : Contains(low, pattern.Keywords[k])}
  IN  (7 * Cardinality(matched) * ConfScale) \div Len(pattern.Keywords)
        + 3 * (IF context = NULL THEN 0 ELSE ConfScale \div 10)

\* the first declared of the patterns whose confidence is the highest
BestPattern(input, context) ==
  LET all == 1..Len(InitializeIntentPatterns)
      best == {i \in all : \A j \in all :
                 PatternConfidence(input, context, i) >= PatternConfidence(input, context, j)}
  IN  CHOOSE i \in best : \A j \in best : i <= j

\* the IntentResult that carries pattern i
ResultOfPattern(input, context, i) ==
  LET pattern == InitializeIntentPatterns[i]
      low == ToLowerInvariant(input)
  IN  [Category |-> pattern.Category,
       CommandTemplate |-> pattern.Template,
       Confidence |-> PatternConfidence(input, context, i),
       Keywords |-> SelectSeq(pattern.Keywords, LAMBDA k : Contains(low, k))]

\* request me was given to the built-in classifier
Classified(me) ==
  me.pc # "idle" /\ me.entry = "builtin" /\ ~IsNullOrWhiteSpace(me.input)

\* a step in which a request arrives and is classified
ClassificationStep == turns' = turns + 1

\* C25 as stated: the classifier returns the pattern of the highest
\* confidence, the first declared of them when several share it, whatever
\* that confidence is; classification changes neither the history nor any
\* context.
C25_ReturnsBestPattern ==
  \A r \in Requests :
    Classified(run[r]) =>
      run[r].intentResult =
        ResultOfPattern(run[r].input, run[r].context,
                        BestPattern(run[r].input, run[r].context))

\* C25, amended: when some pattern's confidence is above zero the classifier
\* returns the pattern of the highest confidence, the first declared of them
\* when several share it; when none is, it returns a result with confidence 0
\* and no template; classification changes neither the history nor any context.
C25_BestPatternInvariant ==
  \A r \in Requests :
    Classified(run[r]) =>
      LET i == BestPattern(run[r].input, run[r].context)
      IN  IF PatternConfidence(run[r].input, run[r].context, i) > 0
          THEN run[r].intentResult = ResultOfPattern(run[r].input, run[r].context, i)
          ELSE /\ run[r].intentResult.Confidence = 0
               /\ run[r].intentResult.CommandTemplate = NoTemplate

C25_ReturnsBestPatternAboveZero ==
  /\ []C25_BestPatternInvariant
  /\ [][ClassificationStep => UNCHANGED <<_history, sessionContext>>]_vars

\* a request that holds every keyword of the second and of the third pattern
\* was given the second
C25_Witness ==
  \E r \in Requests :
    /\ run[r].pc = "done"
    /\ run[r].input = UEverything
    /\ run[r].intentResult.CommandTemplate = CreateBoxTemplate
    /\ run[r].intentResult.Confidence =
         PatternConfidence(UEverything, run[r].context, 3)
    /\ _history # << >>

\* C26: AdjustParameters returns a mapping that equals its input except
\* possibly for "radius": when the error message mentions the radius, a
\* radius that is not positive becomes 1.0 and a radius above 1000 becomes
\* 10.0; in every other case the mapping returned equals the input.
C26_AdjustRepairsRadius ==
  [][\A r \in Requests :
       (run[r].pc = "AdjustParameters" /\ run'[r].pc # "AdjustParameters") =>
         LET in == run[r].parameters
             out == run'[r].parameters
             errorMessage == run[r].execResult.ErrorMessage
             radius == GetDouble(in, "radius", DefaultRadius)
         IN  /\ DOMAIN out = DOMAIN in
             /\ \A k \in DOMAIN in \ {"radius"} : out[k] = in[k]
             /\ IF MentionsRadius(errorMessage) /\ "radius" \in DOMAIN in
                THEN out["radius"] = IF radius <= 0 THEN Double(AdjustedSmall)
                                     ELSE IF radius > LargeRadius THEN Double(AdjustedLarge)
                                     ELSE in["radius"]
                ELSE out = in]_vars

\* the names in a template's parameter list
ParameterNames(template) == {template.Parameters[i] : i \in 1..Len(template.Parameters)}

\* C27: at every point of a direct-command run, from the extraction through
\* every retry and every adjustment of the parameters, the parameter mapping
\* holds only keys of the parameter list of the template the classifier
\* matched, which is the template being executed.  (A mapping holds a key at
\* most once by construction, as the Dictionary does.)
C27_OnlyTemplateParameters ==
  \A r \in Requests :
    run[r].caller # "ai" =>
      /\ DOMAIN run[r].parameters \subseteq ParameterNames(run[r].intentResult.CommandTemplate)
      /\ run[r].caller = "direct" => run[r].template = run[r].intentResult.CommandTemplate

\* a sphere request on its third attempt, after two adjustments, with the
\* center and the radius it was extracted with
C27_Witness ==
  \E r \in Requests :
    /\ run[r].pc = "ExecuteWithRetry"
    /\ run[r].caller = "direct"
    /\ run[r].attempt = 2
    /\ DOMAIN run[r].parameters = {"center", "radius"}

\* C28: ExecuteWithRetry returns a result flagged successful for a creation
\* command only when the entity was created and recorded during that call:
\* an attempt after which the method returns has added the entity to the
\* document and left it in LastCreatedObject, and an attempt that created
\* nothing (a radius above 1000 included) goes on to the adjustment of the
\* parameters or, the attempts used up, to the fallback.
C28_SuccessMeansCreated ==
  [][\A r \in Requests :
       (run[r].pc = "ExecuteWithRetry" /\ run'[r] # run[r]) =>
         LET created == ExecutionContext(run'[r], sessionContext').LastCreatedObject
         IN  /\ run'[r].pc \in {"done", "actions"} =>
                  /\ doc' = doc + 1
                  /\ created # None
                  /\ created.Id = doc'
             /\ doc' = doc => run'[r].pc \in {"AdjustParameters", "exhausted"}]_vars

\* C29: an IntentResult of the classifier whose category is DirectCommand or
\* Modification carries a matched template, and when no pattern scores above
\* zero (no keyword matches and the context is null) the result has the
\* category Unknown and no template.
C29_CategoryImpliesTemplate ==
  \A r \in Requests :
    Classified(run[r]) =>
      LET intentResult == run[r].intentResult
          best == BestPattern(run[r].input, run[r].context)
      IN  /\ intentResult.Category \in {"DirectCommand", "Modification"} =>
               intentResult.CommandTemplate # NoTemplate
          /\ PatternConfidence(run[r].input, run[r].context, best) = 0 =>
               /\ intentResult.Category = "Unknown"
               /\ intentResult.CommandTemplate = NoTemplate

\* request me has ended in ProcessWithAI with a Success
AiSuccess(me) ==
  me.pc = "done" /\ me.lookup.made /\ me.result.Type = "Success"

\* C30 as stated: every Success that ProcessWithAI returns comes with the
\* execution, during the same request, of the actions of a reply: a request
\* that repeats an utterance executes its actions again.
C30_SuccessMeansExecuted ==
  \A r \in Requests :
    AiSuccess(run[r]) =>
      /\ run[r].executions > 0
      /\ run[r].executions = Len(run[r].response.Actions)

\* C30, amended: a Success that ProcessWithAI returns is either the result of
\* executing, during the same request, every action of a reply that has at
\* least one, or the result of a cache entry that has not expired, returned
\* without a provider call and without an execution; the step that returns
\* the cached result adds nothing to the document.
C30_SuccessInvariant ==
  \A r \in Requests :
    AiSuccess(run[r]) =>
      IF run[r].lookup.served
      THEN /\ run[r].executions = 0
           /\ run[r].calls = << >>
           /\ run[r].result = run[r].lookup.Result
           /\ run[r].lookup.at <= run[r].lookup.ExpiryTime
      ELSE /\ run[r].executions > 0
           /\ run[r].executions = Len(run[r].response.Actions)

C30_SuccessExecutedOrCached ==
  /\ []C30_SuccessInvariant
  /\ [][\A r \in Requests :
          (run[r].pc = "ProcessWithAI" /\ run'[r].pc = "done") =>
            UNCHANGED <<doc, _responseCache, sessionContext>>]_vars

\* the utterance is repeated while its entry is alive: the second request is
\* given the first one's result and nothing more is created
C30_Witness ==
  \E r \in Requests :
    /\ AiSuccess(run[r])
    /\ run[r].lookup.served
    /\ turns = 2
    /\ run[r].executions = 0
    /\ doc = 1

=============================================================================
